---- MODULE Spec2Model ----
(***************************************************************************)
(* archlink (src/src/main.rs): search of the official catalog and the AUR, *)
(* ranking of the merged candidates, and the installer fallback chain.     *)
(*                                                                         *)
(* Strings are sequences of one-character strings over a small alphabet:   *)
(* "a", "b", the upper-case "A" and the blank " ".                         *)
(***************************************************************************)
EXTENDS Integers, Sequences, FiniteSets, TLC

VARIABLES
    overflow_checks,   \* build profile: TRUE = overflow panics, FALSE = it wraps
    host,              \* host: [installer -> "absent" | "fails" | "succeeds"]: the
                       \* program (sudo for pacman) cannot be spawned, exits
                       \* non-zero, exits zero
    which_present,     \* host: `which` can be spawned
    cmd,               \* sub-command given on the command line
    arg,               \* its argument (query or package), untrimmed
    max_results,       \* Config.max_results
    pc,                \* position of the program
    query,             \* search_packages: query
    web_state,         \* search_arch_website: "idle" | "inflight" | "ok" | "err"
    local_state,       \* search_official_repos: "idle" | "ok" | "err"
    aur_state,         \* search_aur: "idle" | "inflight" | "ok" | "err"
    web_out,           \* what search_arch_website returned (Ok list), <<>> if none
    local_out,         \* what search_official_repos returned (Ok list)
    aur_out,           \* what search_aur returned (Ok list)
    official_results,  \* search_packages: official_results
    aur_results,       \* search_packages: aur_results
    all_results,       \* search_packages: all_results
    choice,            \* search_packages: choice
    confirm,           \* search_packages: the answer read at (y/N): "none" | "yes" | "no"
    fetch_calls,       \* the fetchers search_packages has called, in call order
    package,           \* install_package: package
    source,            \* install_package: source
    attempted,         \* install_package: attempted
    helper_idx,        \* install_package: position in `helpers`
    launched,          \* installers whose process was spawned, in spawn order
    probed,            \* helpers the `which` probe was run for, in order
    exit_status,       \* [installer -> "none" | "zero" | "nonzero"]
    install_calls,     \* the install_package calls made: <<package, source>>
    install_result,    \* "none" | "ok" | "spawn_error" | "exhausted"
    error_names,       \* the names in the aggregate error message
    search_result,     \* "none" | "ok" | "no_results" | "err"
    exit_code          \* process exit code, -1 while running

vars == <<overflow_checks, host, which_present, cmd, arg,
          max_results, pc, query, web_state, local_state, aur_state, web_out,
          local_out, aur_out, official_results, aur_results, all_results, choice,
          confirm, fetch_calls, package, source, attempted, helper_idx, launched, probed, exit_status,
          install_calls, install_result, error_names, search_result, exit_code>>

hostVars == <<overflow_checks, host, which_present>>
mainVars == <<cmd, arg, max_results>>
fetchVars == <<web_state, local_state, aur_state, web_out, local_out, aur_out,
               official_results, aur_results>>
installVars == <<package, source, attempted, helper_idx, launched, probed,
                 exit_status, install_calls, install_result, error_names>>

----------------------------------------------------------------------------
(* Bounds of the model *)

\* longest list one fetcher returns in a search
MaxFetched == 1
\* longest list per source of the ranking inputs
MaxRanked == 2
\* largest max_results of the configuration in a search
MaxLimit == 2
\* largest limit of the ranking inputs
MaxRankLimit == 2
\* length of the long package name of the ranking inputs
LongLen == 1002

(* Program constants *)

\* score_package: let mut score = 1000 - name_dist
BaseScore == 1000
\* score_package: score += 50
WordBonus == 50
\* u32 values are kept as <<high half, low half>>, 16 bits each
Half == 65536

----------------------------------------------------------------------------
(* Strings *)

Min2(x, y) == IF x <= y THEN x ELSE y

\* char::to_lowercase on the alphabet
LowerChar(c) == IF c = "A" THEN "a" ELSE c

\* str::to_lowercase
to_lowercase(s) == [i \in 1..Len(s) |-> LowerChar(s[i])]

IsSpace(c) == c = " "

\* str::trim
RECURSIVE TrimStart(_)
TrimStart(s) ==
    IF s # <<>> /\ IsSpace(Head(s)) THEN TrimStart(Tail(s)) ELSE s

RECURSIVE TrimEnd(_)
TrimEnd(s) ==
    IF s # <<>> /\ IsSpace(s[Len(s)]) THEN TrimEnd(SubSeq(s, 1, Len(s) - 1)) ELSE s

trim(s) == TrimEnd(TrimStart(s))

\* str::split_whitespace: the maximal blank-free runs, in order
RECURSIVE SplitFrom(_, _, _)
SplitFrom(s, i, cur) ==
    IF i > Len(s)
    THEN IF cur = <<>> THEN <<>> ELSE <<cur>>
    ELSE IF IsSpace(s[i])
         THEN IF cur = <<>>
              THEN SplitFrom(s, i + 1, <<>>)
              ELSE <<cur>> \o SplitFrom(s, i + 1, <<>>)
         ELSE SplitFrom(s, i + 1, Append(cur, s[i]))

split_whitespace(s) == SplitFrom(s, 1, <<>>)

\* str::contains(&str)
contains(s, w) ==
    \E i \in 0..(Len(s) - Len(w)) : SubSeq(s, i + 1, i + Len(w)) = w

----------------------------------------------------------------------------
(* strsim::levenshtein: one cache row per character of a *)

RECURSIVE LevCells(_, _, _, _, _)
\* the cells j..Len(b) of the row of the i-th character ca of a, given the
\* previous row and the cell left of j
LevCells(prev, ca, b, j, left) ==
    IF j > Len(b)
    THEN <<>>
    ELSE LET cost == IF ca = b[j] THEN 0 ELSE 1
             cell == Min2(Min2(prev[j + 1] + 1, left + 1), prev[j] + cost)
         IN  <<cell>> \o LevCells(prev, ca, b, j + 1, cell)

\* row i of the table: distances of a[1..i] to every prefix of b
LevRow(prev, ca, b, i) == <<i>> \o LevCells(prev, ca, b, 1, i)

RECURSIVE LevRows(_, _, _, _, _)
\* the row after the characters lo..hi of a, halving the range
LevRows(a, b, lo, hi, prev) ==
    IF lo > hi
    THEN prev
    ELSE IF lo = hi
         THEN LevRow(prev, a[lo], b, lo)
         ELSE LET mid == (lo + hi) \div 2
                  half == LevRows(a, b, lo, mid, prev)
              IN  IF Len(half) > 0 THEN LevRows(a, b, mid + 1, hi, half) ELSE half

LevCompute(a, b) ==
    LET row0 == [j \in 1..(Len(b) + 1) |-> j - 1]
        last == LevRows(a, b, 1, Len(a), row0)
    IN  last[Len(b) + 1]

----------------------------------------------------------------------------
(* Inputs *)

\* the names a catalog returns
ShortNames == {<<"a">>, <<"a", "b">>}

\* a package name longer than BaseScore characters
RECURSIVE Repeat(_, _)
Repeat(c, n) ==
    IF n = 0
    THEN <<>>
    ELSE IF n = 1 THEN <<c>> ELSE Repeat(c, n \div 2) \o Repeat(c, n - (n \div 2))

LongName == Repeat("b", LongLen)

\* the descriptions a catalog returns
Descriptions == {<<"A">>, <<"b">>}

\* the queries, trimmed and not empty: one word, one word in upper case, two
\* words, one word twice
Queries == {<<"a">>, <<"A">>, <<"a", " ", "b">>, <<"a", " ", "a">>}

\* the command-line arguments: with blanks to trim, of two words, blank
Arguments == {<<" ", "a">>, <<"a", " ", "b">>, <<" ">>}

Package(n, d, s) == [name |-> n, description |-> d, source |-> s]

Pool(names, s) == {Package(n, d, s) : n \in names, d \in Descriptions}

\* the sequences over S of length at most n
SeqsUpTo(S, n) == UNION {[1..k -> S] : k \in 0..n}

\* the distances of the long name, computed once
LongNameDistance == [b \in Queries |-> LevCompute(LongName, b)]

\* strsim::levenshtein
levenshtein(a, b) ==
    IF a = LongName /\ b \in Queries THEN LongNameDistance[b] ELSE LevCompute(a, b)

----------------------------------------------------------------------------
(* u32 arithmetic *)

ToU32(n) == <<n \div Half, n % Half>>

\* u32::cmp
Gt32(x, y) == x[1] > y[1] \/ (x[1] = y[1] /\ x[2] > y[2])

Ge32(x, y) == x = y \/ Gt32(x, y)

\* x - y, wrapping
WrappingSub(x, y) ==
    LET borrow == IF x[2] < y[2] THEN 1 ELSE 0
    IN  <<(x[1] - y[1] - borrow + 2 * Half) % Half, (x[2] - y[2] + Half) % Half>>

\* x + y, wrapping
WrappingAdd(x, y) ==
    LET carry == IF x[2] + y[2] >= Half THEN 1 ELSE 0
    IN  <<(x[1] + y[1] + carry) % Half, (x[2] + y[2]) % Half>>

SubOverflows(x, y) == Gt32(y, x)

AddOverflows(x, y) ==
    x[1] + y[1] + (IF x[2] + y[2] >= Half THEN 1 ELSE 0) >= Half

----------------------------------------------------------------------------
(* score_package *)

\* the loop matching the words against the description as it is written
RECURSIVE ScoreWordsCaseSensitive(_, _, _, _)
ScoreWordsCaseSensitive(score, desc_lower, query_words, i) ==
    IF i > Len(query_words)
    THEN score
    ELSE IF contains(desc_lower, query_words[i])
         THEN ScoreWordsCaseSensitive(WrappingAdd(score, ToU32(WordBonus)),
                                      desc_lower, query_words, i + 1)
         ELSE ScoreWordsCaseSensitive(score, desc_lower, query_words, i + 1)

\* the score after the words i..Len(query_words) of the loop, from score
RECURSIVE ScoreWords(_, _, _, _)
ScoreWords(score, desc_lower, query_words, i) ==
    IF i > Len(query_words)
    THEN score
    ELSE IF contains(desc_lower, to_lowercase(query_words[i]))
         THEN ScoreWords(WrappingAdd(score, ToU32(WordBonus)), desc_lower,
                         query_words, i + 1)
         ELSE ScoreWords(score, desc_lower, query_words, i + 1)

\* the u32 the release build returns
score_package(pkg, q, query_words) ==
    LET name_dist == ToU32(levenshtein(pkg.name, q))
        score == WrappingSub(ToU32(BaseScore), name_dist)
    IN  ScoreWords(score, to_lowercase(pkg.description), query_words, 1)

RECURSIVE WordsOverflow(_, _, _, _)
WordsOverflow(score, desc_lower, query_words, i) ==
    IF i > Len(query_words)
    THEN FALSE
    ELSE IF contains(desc_lower, to_lowercase(query_words[i]))
         THEN \/ AddOverflows(score, ToU32(WordBonus))
              \/ WordsOverflow(WrappingAdd(score, ToU32(WordBonus)), desc_lower,
                               query_words, i + 1)
         ELSE WordsOverflow(score, desc_lower, query_words, i + 1)

\* an arithmetic overflow in score_package: a panic of the checked build
score_overflows(pkg, q, query_words) ==
    LET name_dist == ToU32(levenshtein(pkg.name, q))
    IN  \/ SubOverflows(ToU32(BaseScore), name_dist)
        \/ WordsOverflow(WrappingSub(ToU32(BaseScore), name_dist),
                         to_lowercase(pkg.description), query_words, 1)

----------------------------------------------------------------------------
(* rank_results *)

\* a comparator that also orders b first when the scores tie
ComesBeforeOrTies(b, a, q, query_words) ==
    Ge32(score_package(b, q, query_words), score_package(a, q, query_words))

\* the comparator of sort_by: b is ordered before a
ComesBefore(b, a, q, query_words) ==
    Gt32(score_package(b, q, query_words), score_package(a, q, query_words))

\* x put into a sorted list, behind everything it is not ordered before
RECURSIVE InsertSorted(_, _, _, _)
InsertSorted(sorted, x, q, query_words) ==
    IF sorted = <<>>
    THEN <<x>>
    ELSE IF ComesBefore(x, Head(sorted), q, query_words)
         THEN <<x>> \o sorted
         ELSE <<Head(sorted)>> \o InsertSorted(Tail(sorted), x, q, query_words)

\* slice::sort_by: a stable sort
RECURSIVE SortBy(_, _, _)
SortBy(list, q, query_words) ==
    IF list = <<>>
    THEN <<>>
    ELSE InsertSorted(SortBy(SubSeq(list, 1, Len(list) - 1), q, query_words),
                      list[Len(list)], q, query_words)

\* Vec::truncate
truncate(list, n) == SubSeq(list, 1, Min2(n, Len(list)))

\* rank_results merging the AUR candidates before the official ones
rank_results_aur_first(official, aur, q, limit) ==
    LET combined == aur \o official
        query_words == split_whitespace(q)
    IN  truncate(SortBy(combined, q, query_words), limit)

\* rank_results cutting the list before it is sorted
rank_results_truncate_first(official, aur, q, limit) ==
    LET combined == official \o aur
        query_words == split_whitespace(q)
    IN  SortBy(truncate(combined, limit), q, query_words)

rank_results(official, aur, q, limit) ==
    LET combined == official \o aur
        query_words == split_whitespace(q)
    IN  truncate(SortBy(combined, q, query_words), limit)

\* the comparator runs, and overflows, only when there is something to compare
rank_panics(official, aur, q) ==
    LET combined == official \o aur
        query_words == split_whitespace(q)
    IN  /\ overflow_checks
        /\ Len(combined) >= 2
        /\ \E i \in 1..Len(combined) : score_overflows(combined[i], q, query_words)

----------------------------------------------------------------------------
(* The program *)

\* install_package: let helpers = [("yay", ..), ("paru", ..)]
helpers == <<"yay", "paru">>

Installers == {"pacman", "yay", "paru"}

\* what the catalogs return in a search
OfficialPool ==
    {Package(<<"a">>, <<"A">>, "official"), Package(<<"a", "b">>, <<"b">>, "official")}

AurPool ==
    {Package(<<"a">>, <<"b">>, "aur"), Package(LongName, <<"b">>, "aur")}

\* Result<Vec<Package>, _> of a fetcher
Outcomes(pool) ==
    {[ok |-> FALSE, list |-> <<>>]}
        \cup {[ok |-> TRUE, list |-> l] : l \in SeqsUpTo(pool, MaxFetched)}

Init ==
    /\ overflow_checks \in BOOLEAN
    /\ host \in [Installers -> {"absent", "fails", "succeeds"}]
    /\ which_present \in BOOLEAN
    /\ cmd \in {"search", "install"}
    /\ arg \in Arguments
    /\ max_results \in 0..MaxLimit
    /\ pc = "main"
    /\ query = <<>>
    /\ web_state = "idle"
    /\ local_state = "idle"
    /\ aur_state = "idle"
    /\ fetch_calls = <<>>
    /\ web_out = <<>>
    /\ local_out = <<>>
    /\ aur_out = <<>>
    /\ official_results = <<>>
    /\ aur_results = <<>>
    /\ all_results = <<>>
    /\ choice = -1
    /\ confirm = "none"
    /\ package = <<>>
    /\ source = "none"
    /\ attempted = <<>>
    /\ helper_idx = 1
    /\ launched = <<>>
    /\ probed = <<>>
    /\ exit_status = [i \in Installers |-> "none"]
    /\ install_calls = <<>>
    /\ install_result = "none"
    /\ error_names = <<>>
    /\ search_result = "none"
    /\ exit_code = -1

\* the call install_package(p, s): let mut attempted = Vec::new()
CallInstall(p, s) ==
    /\ package' = p
    /\ source' = s
    /\ attempted' = <<>>
    /\ helper_idx' = 1
    /\ install_calls' = Append(install_calls, <<p, s>>)
    /\ pc' = "install_primary"
    /\ UNCHANGED <<launched, probed, exit_status, install_result, error_names>>

\* main: the match on the sub-command
Main ==
    /\ pc = "main"
    /\ IF trim(arg) = <<>>
       THEN /\ exit_code' = 1
            /\ pc' = "exit"
            /\ UNCHANGED <<query, installVars>>
       ELSE IF cmd = "search"
            THEN /\ query' = trim(arg)
                 /\ pc' = "search_web"
                 /\ UNCHANGED <<exit_code, installVars>>
            ELSE /\ CallInstall(trim(arg), "unknown")
                 /\ UNCHANGED <<exit_code, query>>
    /\ UNCHANGED <<hostVars, mainVars, fetchVars, fetch_calls, all_results, choice,
                   confirm, search_result>>

\* the local search never run
NeedsLocalNever(list) == FALSE

\* the local search run whatever the web search gave
NeedsLocalAlways(list) == TRUE

\* search_packages: if official_results.is_empty()
NeedsLocal(list) == list = <<>>

\* the empty case not told apart
NoResultsNever(list) == FALSE

\* search_packages: if all_results.is_empty()
NoResults(list) == list = <<>>

\* the aggregate error naming the configured installers
AggregateNamesConfigured(list) == <<"pacman">> \o helpers

\* install_package: attempted.join(", ") of the aggregate error
AggregateNames(list) == list

\* search_packages: search_arch_website(query) is called
WebFetchStart ==
    /\ pc = "search_web"
    /\ web_state' = "inflight"
    /\ fetch_calls' = Append(fetch_calls, "web")
    /\ pc' = "await_web"
    /\ UNCHANGED <<hostVars, mainVars, query, local_state, aur_state, web_out,
                   local_out, aur_out, official_results, aur_results, all_results,
                   choice, confirm, installVars, search_result, exit_code>>

\* search_packages: search_arch_website(query).await returns
WebFetchDone ==
    /\ pc = "await_web"
    /\ \E r \in Outcomes(OfficialPool) :
        /\ web_state' = IF r.ok THEN "ok" ELSE "err"
        /\ web_out' = r.list
        /\ official_results' = official_results \o r.list
        /\ pc' = IF NeedsLocal(official_results \o r.list)
                 THEN "search_local"
                 ELSE "search_aur"
    /\ UNCHANGED <<hostVars, mainVars, query, local_state, aur_state, local_out,
                   aur_out, aur_results, all_results, choice, confirm, fetch_calls,
                   installVars, search_result, exit_code>>

\* search_packages: search_official_repos(query), when the web search gave nothing
LocalSearch ==
    /\ pc = "search_local"
    /\ \E r \in Outcomes(OfficialPool) :
        /\ local_state' = IF r.ok THEN "ok" ELSE "err"
        /\ local_out' = r.list
        /\ official_results' = official_results \o r.list
    /\ fetch_calls' = Append(fetch_calls, "local")
    /\ pc' = "search_aur"
    /\ UNCHANGED <<hostVars, mainVars, query, web_state, aur_state, web_out,
                   aur_out, aur_results, all_results, choice, confirm, installVars,
                   search_result, exit_code>>

\* search_aur(query) called and not awaited
AurFetchStartNotAwaited ==
    /\ pc = "search_aur"
    /\ aur_state' = "inflight"
    /\ fetch_calls' = Append(fetch_calls, "aur")
    /\ pc' = "rank"
    /\ UNCHANGED <<hostVars, mainVars, query, web_state, local_state, web_out,
                   local_out, aur_out, official_results, aur_results, all_results,
                   choice, confirm, installVars, search_result, exit_code>>

\* search_packages: search_aur(query) is called
AurFetchStart ==
    /\ pc = "search_aur"
    /\ aur_state' = "inflight"
    /\ fetch_calls' = Append(fetch_calls, "aur")
    /\ pc' = "await_aur"
    /\ UNCHANGED <<hostVars, mainVars, query, web_state, local_state, web_out,
                   local_out, aur_out, official_results, aur_results, all_results,
                   choice, confirm, installVars, search_result, exit_code>>

\* search_packages: search_aur(query).await returns
AurFetchDone ==
    /\ pc = "await_aur"
    /\ \E r \in Outcomes(AurPool) :
        /\ aur_state' = IF r.ok THEN "ok" ELSE "err"
        /\ aur_out' = r.list
        /\ aur_results' = r.list
    /\ pc' = "rank"
    /\ UNCHANGED <<hostVars, mainVars, query, web_state, local_state, web_out,
                   local_out, official_results, all_results, choice, confirm,
                   fetch_calls, installVars, search_result, exit_code>>

\* search_packages: let all_results = rank_results(..), and the empty case
Rank ==
    /\ pc = "rank"
    /\ IF rank_panics(official_results, aur_results, query)
       THEN /\ pc' = "exit"
            /\ exit_code' = 101
            /\ UNCHANGED <<all_results, search_result>>
       ELSE LET ranked == rank_results(official_results, aur_results, query, max_results)
            IN  /\ all_results' = ranked
                /\ IF NoResults(ranked)
                   THEN /\ search_result' = "no_results"
                        /\ exit_code' = 0
                        /\ pc' = "exit"
                   ELSE /\ pc' = "select"
                        /\ UNCHANGED <<search_result, exit_code>>
    /\ UNCHANGED <<hostVars, mainVars, query, fetchVars, fetch_calls, choice, confirm,
                   installVars>>

\* what the user types at the selection prompt: a number, or something else
Selections == (0..(MaxLimit + 1)) \cup {-1}

\* search_packages: the selection prompt
ReadChoice ==
    /\ pc = "select"
    /\ \E io_ok \in BOOLEAN, typed \in Selections :
        IF ~io_ok
        THEN /\ search_result' = "err"
             /\ exit_code' = 1
             /\ pc' = "exit"
             /\ UNCHANGED choice
        ELSE LET n == IF typed < 0 THEN 0 ELSE typed
             IN  /\ choice' = n
                 /\ IF n > 0 /\ n <= Len(all_results)
                    THEN /\ pc' = "confirm"
                         /\ UNCHANGED <<search_result, exit_code>>
                    ELSE /\ search_result' = "ok"
                         /\ exit_code' = 0
                         /\ pc' = "exit"
    /\ UNCHANGED <<hostVars, mainVars, query, fetchVars, fetch_calls, all_results,
                   confirm, installVars>>

\* the first candidate taken whatever was selected
SelectedFirst(list, n) == list[1]

\* search_packages: let selected_package = &all_results[choice - 1]
Selected(list, n) == list[n]

\* the source tag dropped on the way to install_package
SelectedSourceUnknown(pkg) == "unknown"

\* search_packages: selected_package.source, handed to install_package
SelectedSource(pkg) == pkg.source

\* search_packages: the confirmation prompt
ReadConfirm ==
    /\ pc = "confirm"
    /\ \E io_ok \in BOOLEAN, yes \in BOOLEAN :
        IF ~io_ok
        THEN /\ search_result' = "err"
             /\ exit_code' = 1
             /\ pc' = "exit"
             /\ UNCHANGED <<confirm, installVars>>
        ELSE IF yes
             THEN /\ confirm' = "yes"
                  /\ CallInstall(Selected(all_results, choice).name,
                                 SelectedSource(Selected(all_results, choice)))
                  /\ UNCHANGED <<search_result, exit_code>>
             ELSE /\ confirm' = "no"
                  /\ search_result' = "ok"
                  /\ exit_code' = 0
                  /\ pc' = "exit"
                  /\ UNCHANGED installVars
    /\ UNCHANGED <<hostVars, mainVars, query, fetchVars, fetch_calls, all_results,
                   choice>>

\* main dropping the result of install_package
ExitCodeIgnoringError(r) == 0

\* main: the `?` on the result, Ok(()) or Err at the end of main
ExitCodeOf(r) == IF r = "ok" THEN 0 ELSE 1

\* install_package returns r to its caller, and main returns
Return(r) ==
    /\ install_result' = r
    /\ search_result' = IF cmd = "search"
                        THEN IF r = "ok" THEN "ok" ELSE "err"
                        ELSE search_result
    /\ exit_code' = ExitCodeOf(r)
    /\ pc' = "exit"

\* ExitStatus::success() of a spawned installer
Status(installer) == IF host[installer] = "succeeds" THEN "zero" ELSE "nonzero"

\* SysCommand::new(..).status() is Ok: the process was spawned
Spawns(installer) == host[installer] # "absent"

\* the exit status not looked at
success_never(status) == FALSE

\* install_package: if status.success()
success(status) == status = "zero"

\* the primary attempt made for every source
UsesPrimaryAlways(s) == TRUE

\* install_package: if source == "official" || source == "unknown"
UsesPrimary(s) == s = "official" \/ s = "unknown"

\* install_package: the primary attempt
InstallPrimary ==
    /\ pc = "install_primary"
    /\ IF UsesPrimary(source)
       THEN /\ attempted' = Append(attempted, "pacman")
            /\ IF ~Spawns("pacman")
               THEN /\ Return("spawn_error")
                    /\ UNCHANGED <<launched, exit_status>>
               ELSE /\ launched' = Append(launched, "pacman")
                    /\ exit_status' = [exit_status EXCEPT !["pacman"] = Status("pacman")]
                    /\ IF success(Status("pacman"))
                       THEN Return("ok")
                       ELSE /\ pc' = "install_helpers"
                            /\ UNCHANGED <<install_result, search_result, exit_code>>
       ELSE /\ pc' = "install_helpers"
            /\ UNCHANGED <<attempted, launched, exit_status, install_result,
                           search_result, exit_code>>
    /\ UNCHANGED <<hostVars, mainVars, query, fetchVars, fetch_calls, all_results,
                   choice, confirm, package, source, helper_idx, probed, install_calls,
                   error_names>>

\* SysCommand::new("which").arg(helper).output().is_ok()
ProbeOk(helper) == which_present

\* install_package: one round of the loop over helpers
InstallHelper ==
    /\ pc = "install_helpers"
    /\ helper_idx <= Len(helpers)
    /\ LET helper == helpers[helper_idx]
       IN  /\ probed' = Append(probed, helper)
           /\ IF ProbeOk(helper)
              THEN /\ attempted' = Append(attempted, helper)
                   /\ IF ~Spawns(helper)
                      THEN /\ Return("spawn_error")
                           /\ UNCHANGED <<launched, exit_status, helper_idx>>
                      ELSE /\ launched' = Append(launched, helper)
                           /\ exit_status' = [exit_status EXCEPT ![helper] = Status(helper)]
                           /\ IF success(Status(helper))
                              THEN /\ Return("ok")
                                   /\ UNCHANGED helper_idx
                              ELSE /\ helper_idx' = helper_idx + 1
                                   /\ UNCHANGED <<pc, install_result, search_result,
                                                  exit_code>>
              ELSE /\ helper_idx' = helper_idx + 1
                   /\ UNCHANGED <<pc, attempted, launched, exit_status, install_result,
                                  search_result, exit_code>>
    /\ UNCHANGED <<hostVars, mainVars, query, fetchVars, fetch_calls, all_results,
                   choice, confirm, package, source, install_calls, error_names>>

\* install_package: the aggregate error after the loop
InstallExhausted ==
    /\ pc = "install_helpers"
    /\ helper_idx > Len(helpers)
    /\ error_names' = AggregateNames(attempted)
    /\ Return("exhausted")
    /\ UNCHANGED <<hostVars, mainVars, query, fetchVars, fetch_calls, all_results,
                   choice, confirm, package, source, attempted, helper_idx, launched,
                   probed, exit_status, install_calls>>

Next ==
    \/ Main
    \/ WebFetchStart
    \/ WebFetchDone
    \/ LocalSearch
    \/ AurFetchStart
    \/ AurFetchDone
    \/ Rank
    \/ ReadChoice
    \/ ReadConfirm
    \/ InstallPrimary
    \/ InstallHelper
    \/ InstallExhausted

Spec == Init /\ [][Next]_vars

----------------------------------------------------------------------------
(* rank_results on its own: the inputs are drawn, Rank applies it *)

RankOfficialPool == Pool(ShortNames, "official")

RankAurPool == {Package(<<"a">>, <<"b">>, "aur"), Package(LongName, <<"b">>, "aur")}

InitRank ==
    /\ overflow_checks \in BOOLEAN
    /\ host = [i \in Installers |-> "succeeds"]
    /\ which_present = TRUE
    /\ cmd = "search"
    /\ arg \in Queries
    /\ max_results \in 0..MaxRankLimit
    /\ pc = "rank"
    /\ query = arg
    /\ web_state = "ok"
    /\ local_state = "idle"
    /\ aur_state = "ok"
    /\ fetch_calls = <<"web", "aur">>
    /\ official_results \in SeqsUpTo(RankOfficialPool, MaxRanked)
    /\ aur_results \in SeqsUpTo(RankAurPool, MaxRanked)
    /\ web_out = official_results
    /\ local_out = <<>>
    /\ aur_out = aur_results
    /\ all_results = <<>>
    /\ choice = -1
    /\ confirm = "none"
    /\ package = <<>>
    /\ source = "none"
    /\ attempted = <<>>
    /\ helper_idx = 1
    /\ launched = <<>>
    /\ probed = <<>>
    /\ exit_status = [i \in Installers |-> "none"]
    /\ install_calls = <<>>
    /\ install_result = "none"
    /\ error_names = <<>>
    /\ search_result = "none"
    /\ exit_code = -1

SpecRank == InitRank /\ [][Rank]_vars

----------------------------------------------------------------------------
(* Definitions for the properties *)

Range(list) == {list[i] : i \in 1..Len(list)}

Count(list, x) == Cardinality({i \in 1..Len(list) : list[i] = x})

\* the list handed to rank_results
Combined == official_results \o aur_results

\* the score of a candidate for the query of the state
ScoreOf(pkg) == score_package(pkg, query, split_whitespace(query))

\* rank_results has returned
RankReturned == pc = "select" \/ search_result = "no_results"

\* install_package has returned
InstallReturned == install_result # "none"

\* the official source, its local fallback included, failed or succeeded
OfficialFailed == web_state = "err" /\ local_state = "err"
OfficialSucceeded ==
    /\ web_state \in {"ok", "err"}
    /\ local_state \in {"idle", "ok", "err"}
    /\ web_state = "ok" \/ local_state = "ok"

\* the candidates of the official source: those of the web catalog, or of the
\* local database when the web catalog gave none
OfficialReturned == IF web_out # <<>> THEN web_out ELSE local_out

----------------------------------------------------------------------------
(* C1..C10 *)

\* C1: whenever install_package ends without an installer having succeeded, it
\* ends with the aggregate error, and that error names the attempted installers
\* in order.
C1_ExhaustionOnEveryFailure ==
    (InstallReturned /\ install_result # "ok")
        => (install_result = "exhausted" /\ error_names = attempted)

\* C2: with source official, pacman exiting non-zero and a fallback helper that
\* is present and exits zero, install_package returns success with pacman in
\* the attempted list (on a host where the probe program itself runs).
C2_FallbackAfterFailedPrimary ==
    (/\ InstallReturned
     /\ source = "official"
     /\ which_present
     /\ host["pacman"] = "fails"
     /\ \E h \in Range(helpers) : host[h] = "succeeds")
        => (install_result = "ok" /\ "pacman" \in Range(attempted))

\* C3: a helper that is not present on the host is skipped: it is not added to
\* the attempted list and the orchestrator moves on to the next helper.
C3_AbsentHelperSkipped ==
    \A h \in Range(probed) :
        host[h] = "absent"
            => (h \notin Range(attempted) /\ install_result # "spawn_error")

\* C4: the names of the aggregate error are exactly the installers whose
\* process was spawned, in spawn order.
C4_ErrorNamesAreLaunched ==
    install_result = "exhausted" => error_names = launched

C4_Witness ==
    /\ install_result = "exhausted"
    /\ error_names = <<"pacman">>
    /\ probed = <<"yay", "paru">>

\* C5: when exactly one source fails, the search goes on and ranking is handed
\* exactly the candidates of the other source.
C5_OneSourceFails ==
    /\ (pc = "rank" /\ aur_state = "err" /\ OfficialSucceeded)
           => Combined = OfficialReturned
    /\ (pc = "rank" /\ OfficialFailed /\ aur_state = "ok") => Combined = aur_out
    /\ (aur_state = "err" /\ OfficialSucceeded) \/ (OfficialFailed /\ aur_state = "ok")
           => ~(search_result = "err" /\ all_results = <<>>)

C5_Witness ==
    /\ pc = "rank"
    /\ aur_state = "err"
    /\ web_state = "ok"
    /\ web_out # <<>>
    /\ Combined = web_out

\* C6: the AUR fetch is started without waiting for the official fetch: the
\* official fetch never ends while the AUR fetch has not been started.
C6_FetchesConcurrent ==
    web_state \in {"ok", "err"} => aur_state # "idle"

\* C7: rank_results returns min(limit, number of candidates) of the candidates,
\* in descending score order, and no candidate left out has a higher score than
\* one returned.
C7_TopLimit ==
    RankReturned =>
        /\ Len(all_results) = Min2(max_results, Len(Combined))
        /\ \A p \in Range(all_results) : Count(all_results, p) <= Count(Combined, p)
        /\ \A i \in 1..(Len(all_results) - 1) :
               Ge32(ScoreOf(all_results[i]), ScoreOf(all_results[i + 1]))
        /\ \A p \in Range(Combined) :
               Count(all_results, p) < Count(Combined, p)
                   => \A r \in Range(all_results) : Ge32(ScoreOf(r), ScoreOf(p))

C7_Witness ==
    /\ pc = "select"
    /\ Len(all_results) < Len(Combined)
    /\ all_results[1] # Combined[1]
    /\ \E p \in Range(Combined) :
           p \notin Range(all_results) /\ Gt32(ScoreOf(all_results[1]), ScoreOf(p))

\* C8: of two ranked candidates with the same description, the one whose name
\* is at the larger edit distance from the query never has the higher score.
C8_ScoreMonotone ==
    \A p, r \in Range(Combined) :
        (/\ RankReturned
         /\ ~overflow_checks
         /\ p.description = r.description
         /\ levenshtein(p.name, query) < levenshtein(r.name, query))
            => Ge32(ScoreOf(p), ScoreOf(r))

\* C9: when the primary attempt fails, by exit status or by failing to launch,
\* install_package goes on to the fallback stage.
C9_PrimaryFailureProceeds ==
    (/\ "pacman" \in Range(attempted)
     /\ host["pacman"] # "succeeds"
     /\ pc # "install_primary")
        => (pc = "install_helpers" \/ probed # <<>>)

\* C10: when both sources fail, the search ends normally in the no-results
\* state, with no prompt and no installation.
C10_BothFailNoResults ==
    (OfficialFailed /\ aur_state = "err")
        => \/ pc = "rank"
           \/ /\ pc = "exit"
              /\ search_result = "no_results"
              /\ exit_code = 0
              /\ choice = -1
              /\ install_calls = <<>>
              /\ launched = <<>>

C10_Witness ==
    OfficialFailed /\ aur_state = "err" /\ pc = "exit" /\ search_result = "no_results"

----------------------------------------------------------------------------
(* C11..C20 *)

\* install_package: the order in which the installers are tried
Priority == <<"pacman", "yay", "paru">>

\* C11: once an installer exits zero install_package has returned success, that
\* installer is the last one launched, no installer before it in priority order
\* exited zero and none after it was probed or launched; and success is
\* returned only after a launched installer exited zero.
C11_FirstSuccessWins ==
    /\ \A i \in 1..Len(Priority) :
           exit_status[Priority[i]] = "zero"
               => /\ install_result = "ok"
                  /\ launched # <<>>
                  /\ launched[Len(launched)] = Priority[i]
                  /\ \A j \in 1..Len(Priority) :
                         /\ j < i => exit_status[Priority[j]] # "zero"
                         /\ j > i => /\ Priority[j] \notin Range(probed)
                                     /\ Priority[j] \notin Range(launched)
                                     /\ exit_status[Priority[j]] = "none"
    /\ install_result = "ok"
           => \E i \in 1..Len(Priority) :
                  exit_status[Priority[i]] = "zero" /\ Priority[i] \in Range(launched)

C11_Witness ==
    /\ install_result = "ok"
    /\ exit_status["pacman"] = "nonzero"
    /\ exit_status["yay"] = "zero"
    /\ host["paru"] = "succeeds"

\* C12: at the end of the process the exit code is 0 after a successful
\* installation, a selection of 0 or a declined confirmation, and 1 after an
\* argument that is empty once trimmed or after exhaustion of the installers.
C12_ExitCodes ==
    pc = "exit" =>
        /\ (\/ install_result = "ok"
            \/ (cmd = "search" /\ choice = 0 /\ search_result = "ok")
            \/ confirm = "no") => exit_code = 0
        /\ (trim(arg) = <<>> \/ install_result = "exhausted") => exit_code = 1

C12_Witness ==
    /\ pc = "exit"
    /\ confirm = "yes"
    /\ install_result = "exhausted"
    /\ exit_code = 1

\* C13: the merged list of a search never holds two candidates with the same
\* name and the same source.
C13_NoDuplicateInSource ==
    RankReturned =>
        \A i, j \in 1..Len(Combined) :
            (/\ i # j
             /\ Combined[i].name = Combined[j].name)
                => Combined[i].source # Combined[j].source

\* the candidates of one source, in order
OfSource(list, s) ==
    LET FromSource(p) == p.source = s IN SelectSeq(list, FromSource)

\* C14: ranking the result of a ranking that cut nothing, with the same query
\* and limit, gives the same sequence again, whether the result is handed back
\* as one list or split by source.
C14_Idempotent ==
    (RankReturned /\ max_results >= Len(Combined)) =>
        /\ rank_results(all_results, <<>>, query, max_results) = all_results
        /\ rank_results(OfSource(all_results, "official"), OfSource(all_results, "aur"),
                        query, max_results) = all_results

C14_Witness ==
    /\ RankReturned
    /\ max_results >= Len(Combined)
    /\ Len(all_results) >= 2
    /\ all_results # Combined

\* the score before the bonus
BaseOf(pkg) == WrappingSub(ToU32(BaseScore), ToU32(levenshtein(pkg.name, query)))

\* the word w of the query occurs in the description of pkg, whatever the case
WordMatches(pkg, w) == contains(to_lowercase(pkg.description), to_lowercase(w))

\* score_package returns for pkg
ScoreReturns(pkg) ==
    ~(overflow_checks /\ score_overflows(pkg, query, split_whitespace(query)))

WithScore(list, v) ==
    LET HasScore(p) == ScoreOf(p) = v IN SelectSeq(list, HasScore)

\* a is the beginning of b
IsPrefix(a, b) == Len(a) <= Len(b) /\ a = SubSeq(b, 1, Len(a))

\* C19: candidates of equal score keep the order of the merged list, official
\* candidates in fetch order before AUR candidates in fetch order, and the cut
\* keeps the earliest of them: an official candidate is never ranked behind, or
\* left out in favour of, an AUR candidate of the same score.
C19_TieBreak ==
    RankReturned =>
        /\ \A p \in Range(Combined) :
               IsPrefix(WithScore(all_results, ScoreOf(p)), WithScore(Combined, ScoreOf(p)))
        /\ \A i, j \in 1..Len(all_results) :
               (/\ i < j
                /\ ScoreOf(all_results[i]) = ScoreOf(all_results[j])
                /\ all_results[i].source = "aur")
                   => all_results[j].source = "aur"
        /\ \A p \in Range(official_results) :
               \A i \in 1..Len(all_results) :
                   (/\ all_results[i].source = "aur"
                    /\ ScoreOf(all_results[i]) = ScoreOf(p))
                       => Count(all_results, p) = Count(official_results, p)

C19_Witness ==
    /\ RankReturned
    /\ Len(all_results) = 1
    /\ all_results[1].source = "official"
    /\ \E r \in Range(aur_results) : ScoreOf(r) = ScoreOf(all_results[1])

\* search_packages is at or behind the call of rank_results
FetchesJoined ==
    /\ query # <<>>
    /\ pc \notin {"search_web", "await_web", "search_local", "search_aur", "await_aur"}

\* C16: rank_results is called only when the official fetch and the AUR fetch
\* have each returned, with a list or with an error, and it is handed what they
\* returned; while one of them is in flight nothing is ranked.
C16_JoinBeforeRank ==
    /\ FetchesJoined =>
           /\ web_state \in {"ok", "err"}
           /\ local_state \in {"idle", "ok", "err"}
           /\ aur_state \in {"ok", "err"}
           /\ official_results = web_out \o local_out
           /\ aur_results = aur_out
    /\ (web_state = "inflight" \/ aur_state = "inflight") =>
           /\ all_results = <<>>
           /\ search_result = "none"
           /\ pc \in {"await_web", "await_aur"}

C16_Witness ==
    /\ pc = "select"
    /\ web_state = "err"
    /\ aur_state = "ok"
    /\ all_results = aur_out

\* install_package is behind its primary stage
PastPrimary == install_calls # <<>> /\ pc # "install_primary"

\* C17: the launch of sudo pacman is attempted exactly when the source is
\* official or unknown, and then before anything else; with the source aur
\* pacman is neither launched nor in the attempted list and yay is the first
\* installer considered; the install command calls install_package with the
\* source unknown.
C17_PrimaryBySource ==
    /\ PastPrimary =>
           /\ "pacman" \in Range(attempted) <=> source \in {"official", "unknown"}
           /\ "pacman" \in Range(launched)
                  <=> (source \in {"official", "unknown"} /\ Spawns("pacman"))
           /\ source \in {"official", "unknown"} => attempted[1] = "pacman"
           /\ source = "aur" =>
                  /\ exit_status["pacman"] = "none"
                  /\ probed # <<>> => probed[1] = "yay"
                  /\ attempted # <<>> => attempted[1] = "yay"
                  /\ launched # <<>> => launched[1] = "yay"
    /\ pc = "install_primary" =>
           attempted = <<>> /\ launched = <<>> /\ probed = <<>>
    /\ (cmd = "install" /\ install_calls # <<>>) =>
           /\ install_calls = << <<trim(arg), "unknown">> >>
           /\ source = "unknown"
           /\ PastPrimary => attempted[1] = "pacman"

C17_Witness ==
    /\ pc = "exit"
    /\ source = "aur"
    /\ probed # <<>>
    /\ probed[1] = "yay"
    /\ launched = <<"yay">>
    /\ host["pacman"] = "succeeds"

\* C18: in the search flow install_package is called at most once, and only
\* after a selection between 1 and the length of the displayed list followed by
\* a yes; it is called with the name and the source tag of the candidate
\* displayed at that index, as its fetcher set it. Without that call no
\* installer is probed or launched.
C18_InstallOnlyWhenConfirmed ==
    cmd = "search" =>
        /\ Len(install_calls) <= 1
        /\ confirm = "yes" <=> install_calls # <<>>
        /\ install_calls # <<>> =>
               /\ choice \in 1..Len(all_results)
               /\ install_calls[1] = <<all_results[choice].name, all_results[choice].source>>
               /\ package = all_results[choice].name
               /\ source = all_results[choice].source
               /\ \/ all_results[choice] \in Range(official_results) /\ source = "official"
                  \/ all_results[choice] \in Range(aur_results) /\ source = "aur"
        /\ (choice \notin 1..Len(all_results) \/ confirm = "no") => install_calls = <<>>
        /\ install_calls = <<>> =>
               attempted = <<>> /\ launched = <<>> /\ probed = <<>>

C18_Witness ==
    /\ cmd = "search"
    /\ pc = "exit"
    /\ choice = 2
    /\ confirm = "yes"
    /\ all_results[2].source = "aur"
    /\ all_results[1].source = "official"
    /\ install_calls = << <<all_results[2].name, "aur">> >>

\* C20: no fetcher is called twice; when the fetches of a search are over the
\* web fetch and the AUR fetch were called once each, and the local query was
\* called, between them, exactly when the web fetch gave no candidate.
C20_FetchSequence ==
    /\ \A f \in {"web", "local", "aur"} : Count(fetch_calls, f) <= 1
    /\ (query # <<>> /\ pc \notin {"search_web", "await_web", "search_local", "search_aur"}) =>
           fetch_calls = IF web_out = <<>>
                         THEN <<"web", "local", "aur">>
                         ELSE <<"web", "aur">>
    /\ "local" \in Range(fetch_calls) <=> local_state # "idle"

C20_Witness ==
    /\ pc = "exit"
    /\ web_state = "ok"
    /\ web_out = <<>>
    /\ local_out # <<>>
    /\ fetch_calls = <<"web", "local", "aur">>

====
